---- MODULE Spec2Model ----
(***************************************************************************)
(* A model of fetch_areena.py: the Yle Areena radio guide scraper.         *)
(*                                                                         *)
(* Python values are modelled as follows.  An optional value (a dict key   *)
(* that may be absent, a value that may be None) is the empty tuple None   *)
(* or the one-element tuple Some(v).  Strings that the code only compares  *)
(* are TLA+ strings; strings that the code slices, splits or rewrites are  *)
(* sequences of tokens.  JSON documents are of the shape the code reads    *)
(* with dict.get(key, default): a key is absent or holds a value of the    *)
(* expected type.                                                          *)
(***************************************************************************)
EXTENDS Integers, Sequences, FiniteSets, TLC

VARIABLES
    schedule,   \* the remote schedule API: date -> response
    cache,      \* AreenaCache._cache: cache key -> title (on disk, persistent)
    files,      \* the dated output tree: path -> document
    outfile,    \* the single output file (-o): None, or Some(document)
    stdout,     \* the documents dumped to standard output by this process
    pc,         \* where the process is: idle, loop, done, exited
    run,        \* the number of invocations of main() so far
    areena,     \* AreenaData of this run: build_id and data_hash
    mode,       \* FetchConfig of this run: the output and directory arguments
    cur,        \* current_date of fetch_multiple_days, as a day number
    exit,       \* the exit status of the process
    trace,      \* what this run has done so far (history)
    prev,       \* how the previous run ended (history)
    call        \* the calls made so far by the function-level specifications

vars == <<schedule, cache, files, outfile, stdout, pc, run, areena, mode, cur,
          exit, trace, prev, call>>

driverVars == <<schedule, files, outfile, stdout, pc, run, areena, mode, cur,
                exit, trace, prev>>

\* ------------------------------------------------------------------ bounds

\* the remote guide holds data for at most this many dates
MaxDays == 2
\* invocations of main()
MaxRuns == 2
\* direct calls of get_series_title
MaxLookups == 2
\* items in a schedule response's data list
MaxItems == 2
\* labels of one item
MaxLabels == 2

\* ----------------------------------------------------------- Python values

None == <<>>
Some(v) == <<v>>
\* dict.get(key, default)
Get(o, default) == IF o = None THEN default ELSE o[1]

\* Truthiness of an optional string: None and "" are falsy.
TruthyStr(o) == o # None /\ o[1] # ""

\* ------------------------------------------------- series title lookup

\* What the series endpoint can answer to one GET.
\*   transport: requests.get raises (ConnectionError, Timeout)
\*   badstatus: raise_for_status raises HTTPError
\*   badjson:   response.json() raises JSONDecodeError
\*   json:      a JSON object, read as pageProps.view.title
JsonBodies ==
    { [pageProps |-> None],
      [pageProps |-> Some([view |-> None])],
      [pageProps |-> Some([view |-> Some([title |-> None])])],
      [pageProps |-> Some([view |-> Some([title |-> Some("")])])],
      [pageProps |-> Some([view |-> Some([title |-> Some("Test Series")])])] }

NoBody == [pageProps |-> None]

SeriesResps ==
    { [kind |-> k, body |-> NoBody] : k \in {"transport", "badstatus", "badjson"} }
    \cup { [kind |-> "json", body |-> b] : b \in JsonBodies }

\* data.get("pageProps", {}).get("view", {}).get("title")
BodyTitle(body) ==
    LET pageProps == Get(body.pageProps, [view |-> None])
        view == Get(pageProps.view, [title |-> None])
    IN  view.title

\* str(build_id) inside an f-string: None is formatted as "None".
FormatOpt(o) == Get(o, "None")

\* cache_key = f"series_title:{series_id}:{build_id}"
CacheKey(series_id, build_id) == <<"series_title", series_id, FormatOpt(build_id)>>

\* self._cache.get(cache_key)
CacheGet(c, key) == IF key \in DOMAIN c THEN Some(c[key]) ELSE None

\* self._cache.set(cache_key, title, expire=...)
CacheSet(c, key, title) == [k \in DOMAIN c \cup {key} |-> IF k = key THEN title ELSE c[k]]

EmptyCache == [k \in {} |-> ""]

\* Mutant: the early return for a missing build id is gone.
GuardBuildIdNever(build_id) == FALSE

\* if not build_id: return None
GuardBuildId(build_id) == ~TruthyStr(build_id)

\* Mutant: the except clause does not catch requests.RequestException.
CaughtOnlyJson(kind) == kind = "badjson"

\* except (requests.RequestException, KeyError, json.JSONDecodeError)
Caught(kind) == kind \in {"transport", "badstatus", "badjson"}

\* AreenaCache.get_series_title on cache store c, when the series endpoint
\* would answer resp.  The result: ret (the optional title returned),
\* cache (the store afterwards), calls (GETs sent), reads (cache.get calls),
\* raised (an exception left the method).
get_series_title(c, series_id, build_id, resp) ==
    IF GuardBuildId(build_id)
    THEN [ret |-> None, cache |-> c, calls |-> 0, reads |-> 0, raised |-> FALSE]
    ELSE LET cache_key == CacheKey(series_id, build_id)
             cached_title == CacheGet(c, cache_key)
         IN  IF cached_title # None
             THEN [ret |-> cached_title, cache |-> c, calls |-> 0, reads |-> 1,
                   raised |-> FALSE]
             ELSE IF resp.kind # "json"
             THEN [ret |-> None, cache |-> c, calls |-> 1, reads |-> 1,
                   raised |-> ~Caught(resp.kind)]
             ELSE LET title == BodyTitle(resp.body)
                  IN  IF TruthyStr(title)
                      THEN [ret |-> title, cache |-> CacheSet(c, cache_key, title[1]),
                            calls |-> 1, reads |-> 1, raised |-> FALSE]
                      ELSE [ret |-> None, cache |-> c, calls |-> 1, reads |-> 1,
                            raised |-> FALSE]

\* ---------------------------------------------------------------- strings
\* A string the code takes apart is a sequence of tokens.  A token is one
\* character, except that a calendar date, a time of day, a UTC offset, a
\* word, a run of digits inside a URI and the URI scheme prefix are one
\* token each.

\* s.startswith(p)
StartsWith(s, p) == Len(s) >= Len(p) /\ SubSeq(s, 1, Len(p)) = p

\* s.endswith(p)
EndsWith(s, p) == Len(s) >= Len(p) /\ SubSeq(s, Len(s) - Len(p) + 1, Len(s)) = p

\* s.replace(old, new) for one-token old and new
Replace(s, old, new) == [i \in 1..Len(s) |-> IF s[i] = old THEN new ELSE s[i]]

\* s.split(sep): the list of the pieces between the separators
RECURSIVE SplitInto(_, _, _, _)
SplitInto(s, sep, piece, pieces) ==
    IF s = <<>> THEN Append(pieces, piece)
    ELSE IF Head(s) = sep THEN SplitInto(Tail(s), sep, <<>>, Append(pieces, piece))
    ELSE SplitInto(Tail(s), sep, Append(piece, Head(s)), pieces)

Split(s, sep) == SplitInto(s, sep, <<>>, <<>>)

DigitChars == {"0", "1", "2", "3", "4", "5", "6", "7", "8", "9"}

DigitVal(ch) ==
    CASE ch = "0" -> 0 [] ch = "1" -> 1 [] ch = "2" -> 2 [] ch = "3" -> 3
      [] ch = "4" -> 4 [] ch = "5" -> 5 [] ch = "6" -> 6 [] ch = "7" -> 7
      [] ch = "8" -> 8 [] ch = "9" -> 9

RECURSIVE DigitsValue(_, _)
DigitsValue(s, acc) ==
    IF s = <<>> THEN acc
    ELSE IF Head(s) = "_" THEN DigitsValue(Tail(s), acc)
    ELSE DigitsValue(Tail(s), 10 * acc + DigitVal(Head(s)))

\* s.strip() of blanks
RECURSIVE LStrip(_)
LStrip(s) == IF s # <<>> /\ Head(s) = " " THEN LStrip(Tail(s)) ELSE s

RECURSIVE RStrip(_)
RStrip(s) == IF s # <<>> /\ s[Len(s)] = " " THEN RStrip(SubSeq(s, 1, Len(s) - 1)) ELSE s

\* int(s): Some(n), or None for ValueError.  Python accepts blanks around
\* the number, a sign, and single underscores between digits.
int(s) ==
    LET t == RStrip(LStrip(s))
        signed == t # <<>> /\ t[1] \in {"+", "-"}
        body == IF signed THEN Tail(t) ELSE t
        wellFormed ==
            /\ body # <<>>
            /\ \A i \in 1..Len(body) : body[i] \in DigitChars \cup {"_"}
            /\ body[1] # "_" /\ body[Len(body)] # "_"
            /\ \A i \in 1..(Len(body) - 1) : ~(body[i] = "_" /\ body[i + 1] = "_")
        n == DigitsValue(body, 0)
    IN  IF ~wellFormed THEN None
        ELSE IF signed /\ t[1] = "-" THEN Some(0 - n) ELSE Some(n)

\* --------------------------------------------------------------- datetime
\* A datetime is [day, sec, offset]: the calendar day as a day number, the
\* second of the day, and the optional UTC offset as written.

SecondsPerDay == 24 * 60 * 60

DateTokens == {"2024-01-01", "2024-01-02"}
DateVal(tok) == CASE tok = "2024-01-01" -> 0 [] tok = "2024-01-02" -> 1

TimeTokens == {"06:00:00", "06:00", "23:45:00"}
TimeVal(tok) ==
    CASE tok = "06:00:00" -> 6 * 3600
      [] tok = "06:00" -> 6 * 3600
      [] tok = "23:45:00" -> 23 * 3600 + 45 * 60

OffsetTokens == {"+02:00", "Z"}
OffsetVal(tok) == CASE tok = "+02:00" -> "+02:00" [] tok = "Z" -> "+00:00"

\* datetime.fromisoformat(s): Some(datetime), or None for ValueError
fromisoformat(s) ==
    IF Len(s) = 1 /\ s[1] \in DateTokens
    THEN Some([day |-> DateVal(s[1]), sec |-> 0, offset |-> None])
    ELSE IF Len(s) = 3 /\ s[1] \in DateTokens /\ s[2] \in {"T", " "} /\ s[3] \in TimeTokens
    THEN Some([day |-> DateVal(s[1]), sec |-> TimeVal(s[3]), offset |-> None])
    ELSE IF /\ Len(s) = 4 /\ s[1] \in DateTokens /\ s[2] \in {"T", " "}
            /\ s[3] \in TimeTokens /\ s[4] \in OffsetTokens
    THEN Some([day |-> DateVal(s[1]), sec |-> TimeVal(s[3]),
               offset |-> Some(OffsetVal(s[4]))])
    ELSE None

\* dt + timedelta(seconds=n)
PlusSeconds(dt, n) ==
    [day |-> dt.day + ((dt.sec + n) \div SecondsPerDay),
     sec |-> (dt.sec + n) % SecondsPerDay,
     offset |-> dt.offset]

\* dt.isoformat(): YYYY-MM-DDTHH:MM:SS[+HH:MM], field by field
isoformat(dt) ==
    [date |-> dt.day,
     hour |-> dt.sec \div 3600,
     minute |-> (dt.sec \div 60) % 60,
     second |-> dt.sec % 60,
     offset |-> dt.offset]

\* ----------------------------------------------------------- schedule items
\* An item is [title, description, labels]; a label is [type, raw, pointer],
\* pointer being the optional [uri].  Every key is optional.

\* Mutant: no break after a label has parsed, so the last broadcastStartDate
\* label that datetime.fromisoformat accepts is the one that stays.
RECURSIVE scan_start_time_last(_)
scan_start_time_last(labels) ==
    IF labels = <<>> THEN None
    ELSE LET label == labels[Len(labels)]
             parsed == fromisoformat(Get(label.raw, <<>>))
         IN  IF label.type = Some("broadcastStartDate") /\ parsed # None
             THEN parsed
             ELSE scan_start_time_last(SubSeq(labels, 1, Len(labels) - 1))

\* for label in item.get("labels", []): the first broadcastStartDate label
\* that datetime.fromisoformat accepts
RECURSIVE scan_start_time(_)
scan_start_time(labels) ==
    IF labels = <<>> THEN None
    ELSE LET label == Head(labels)
             parsed == fromisoformat(Get(label.raw, <<>>))
         IN  IF label.type = Some("broadcastStartDate") /\ parsed # None
             THEN parsed
             ELSE scan_start_time(Tail(labels))

\* for label in item.get("labels", []): the first duration label of the
\* form PT...S decides (break), also when int() rejects what is between
\* (contextlib.suppress leaves duration_seconds at 0); a duration label of
\* another form is passed over
RECURSIVE scan_duration(_)
scan_duration(labels) ==
    IF labels = <<>> THEN 0
    ELSE LET label == Head(labels)
             duration_raw == Get(label.raw, <<>>)
         IN  IF /\ label.type = Some("duration")
                /\ StartsWith(duration_raw, <<"P", "T">>)
                /\ EndsWith(duration_raw, <<"S">>)
             THEN Get(int(SubSeq(duration_raw, 3, Len(duration_raw) - 1)), 0)
             ELSE scan_duration(Tail(labels))

\* Mutant: any non-zero duration gives an end time.
HasEndTimeNonZero(start_time, duration_seconds) ==
    start_time # None /\ duration_seconds # 0

\* if start_time and duration_seconds > 0
HasEndTime(start_time, duration_seconds) ==
    start_time # None /\ duration_seconds > 0

\* The end of _extract_time_info: end_time from the two scanned values
TimeInfo(start_time, duration_seconds) ==
    [start_time |-> start_time,
     end_time |-> IF HasEndTime(start_time, duration_seconds)
                  THEN Some(PlusSeconds(start_time[1], duration_seconds))
                  ELSE None]

_extract_time_info(item) ==
    TimeInfo(scan_start_time(Get(item.labels, <<>>)), scan_duration(Get(item.labels, <<>>)))

ItemsPrefix == "yleareena://items/"
DigitRuns == {"1", "1234567", "7654321"}

\* re.search(r"yleareena://items/(\d+-\d+)", uri): Some(group 1), or None
re_search_items(uri) ==
    LET hits == { i \in 1..Len(uri) :
                    /\ i + 3 <= Len(uri)
                    /\ uri[i] = ItemsPrefix
                    /\ uri[i + 1] \in DigitRuns
                    /\ uri[i + 2] = "-"
                    /\ uri[i + 3] \in DigitRuns }
    IN  IF hits = {} THEN None
        ELSE LET i == CHOOSE h \in hits : \A g \in hits : h <= g
             IN  Some(uri[i + 1] \o "-" \o uri[i + 3])

\* for label in item.get("labels", []): the first seriesLink label whose
\* pointer uri matches
RECURSIVE scan_series_id(_)
scan_series_id(labels) ==
    IF labels = <<>> THEN None
    ELSE LET label == Head(labels)
             uri == Get(Get(label.pointer, [uri |-> None]).uri, <<>>)
             match == re_search_items(uri)
         IN  IF label.type = Some("seriesLink") /\ match # None
             THEN match
             ELSE scan_series_id(Tail(labels))

\* The end of _extract_series_info: looked is the series id that was looked
\* up, r the result of get_series_title.
SeriesInfo(looked, r) ==
    [looked |-> looked, ret |-> r.ret, cache |-> r.cache, calls |-> r.calls,
     raised |-> r.raised]

\* if series_id: return cache.get_series_title(series_id, build_id)
LookupSeries(series_id, build_id, c, remote) ==
    IF series_id = None
    THEN [looked |-> None, ret |-> None, cache |-> c, calls |-> 0, raised |-> FALSE]
    ELSE SeriesInfo(series_id,
                    get_series_title(c, series_id[1], build_id, remote[series_id[1]]))

\* _extract_series_info on cache store c; remote maps a series id to what
\* the series endpoint answers.
_extract_series_info(item, build_id, c, remote) ==
    LookupSeries(scan_series_id(Get(item.labels, <<>>)), build_id, c, remote)

\* --------------------------------------------------------------- services

\* str.title() and str.lower() on one token
TitleTok(tok) ==
    CASE tok \in {"yle", "Yle", "YLE"} -> "Yle"
      [] tok \in {"radio", "Radio", "RADIO"} -> "Radio"
      [] tok \in {"puhe", "Puhe", "PUHE"} -> "Puhe"
      [] OTHER -> tok

LowerTok(tok) ==
    CASE tok \in {"yle", "Yle", "YLE"} -> "yle"
      [] tok \in {"radio", "Radio", "RADIO"} -> "radio"
      [] tok \in {"puhe", "Puhe", "PUHE"} -> "puhe"
      [] OTHER -> tok

Title(s) == [i \in 1..Len(s) |-> TitleTok(s[i])]
Lower(s) == [i \in 1..Len(s) |-> LowerTok(s[i])]

YleRadio1 == <<"yle", "-", "radio", "-", "1">>

\* service_names = {"yle-radio-1": "Yle Radio 1"}
service_names(service_id) ==
    IF service_id = YleRadio1
    THEN <<"Yle", " ", "Radio", " ", "1">>
    ELSE Title(Replace(service_id, "-", " "))

\* _extract_service_info: yle_referer.split(".")[-2] raises IndexError when
\* the referer has fewer than two pieces (the default "" has one).  The
\* path meta.analytics.context.comscore.yle_referer of the response is the
\* one optional field yle_referer of schedule_data.
_extract_service_info(schedule_data) ==
    LET pieces == Split(Get(schedule_data.yle_referer, <<>>), ".")
    IN  IF Len(pieces) < 2
        THEN [raised |-> TRUE, service_id |-> <<>>, service_name |-> <<>>]
        ELSE LET service_id == Replace(pieces[Len(pieces) - 1], "_", "-")
             IN  [raised |-> FALSE, service_id |-> service_id,
                  service_name |-> service_names(service_id)]

\* ------------------------------------------------------------ convert_to_yaml

\* Mutant: a title key is enough, also when the title is empty.
HasRequiredFieldsKeyOnly(item) == item.title # None

\* all(key in item and item[key] for key in ["title"])
HasRequiredFields(item) == TruthyStr(item.title)

\* One pass of the loop over schedule_data["data"]: acc holds the programmes
\* so far, the cache store, the series lookups made (at: the position of the
\* programme each was made for) and whether an exception has left the loop.
\* times and s are the item's _extract_time_info and _extract_series_info.
\* A lookup records the endpoint's answer when it sent a GET.
convert_item(item, times, s, remote, acc) ==
    IF ~HasRequiredFields(item) THEN acc
    ELSE IF times.start_time = None THEN acc
    ELSE [programmes |->
              IF s.raised THEN acc.programmes
              ELSE Append(acc.programmes,
                          [title |-> item.title[1],
                           start_time |-> isoformat(times.start_time[1]),
                           end_time |-> IF times.end_time # None
                                        THEN Some(isoformat(times.end_time[1]))
                                        ELSE None,
                           description |-> IF TruthyStr(item.description)
                                           THEN item.description ELSE None,
                           series |-> IF TruthyStr(s.ret) THEN s.ret ELSE None]),
          cache |-> s.cache,
          lookups |->
              IF s.looked = None THEN acc.lookups
              ELSE Append(acc.lookups,
                          [series_id |-> s.looked[1], ret |-> s.ret,
                           calls |-> s.calls, raised |-> s.raised,
                           answer |-> IF s.calls = 0 THEN None
                                      ELSE Some(remote[s.looked[1]]),
                           at |-> Len(acc.programmes) + 1]),
          raised |-> s.raised]

\* for item in schedule_data["data"]
RECURSIVE convert_items(_, _, _, _)
convert_items(items, build_id, remote, acc) ==
    IF items = <<>> \/ acc.raised THEN acc
    ELSE convert_items(Tail(items), build_id, remote,
                       convert_item(Head(items), _extract_time_info(Head(items)),
                                    _extract_series_info(Head(items), build_id, acc.cache,
                                                         remote),
                                    remote, acc))

\* The end of convert_to_yaml.  The document is [data_hash, service_name,
\* programmes]: metadata.data_hash and the one entry of data.
\* metadata.generated_at and metadata.git are not modelled.
Document(service, r, data_hash, c) ==
    IF service.raised
    THEN [raised |-> TRUE, yaml |-> None, cache |-> c, lookups |-> <<>>]
    ELSE [raised |-> r.raised,
          yaml |-> IF r.raised THEN None
                   ELSE Some([data_hash |-> data_hash,
                              service_name |-> service.service_name,
                              programmes |-> r.programmes]),
          cache |-> r.cache,
          lookups |-> r.lookups]

\* convert_to_yaml(schedule_data, build_id, data_hash, cache)
convert_to_yaml(schedule_data, build_id, data_hash, c, remote) ==
    Document(_extract_service_info(schedule_data),
             convert_items(Get(schedule_data.data, <<>>), build_id, remote,
                           [programmes |-> <<>>, cache |-> c, lookups |-> <<>>,
                            raised |-> FALSE]),
             data_hash, c)

\* ------------------------------------------------------------ build_api_url

\* The calendar: day number 0 is 2024-12-30, so that the dates cross a month
\* and a year.  Ymd(d) is <<year, month, day>> (for d below 33).
Ymd(d) == IF d <= 1 THEN <<2024, 12, 30 + d>> ELSE <<2025, 1, d - 1>>

DigitStr(n) ==
    CASE n = 0 -> "0" [] n = 1 -> "1" [] n = 2 -> "2" [] n = 3 -> "3" [] n = 4 -> "4"
      [] n = 5 -> "5" [] n = 6 -> "6" [] n = 7 -> "7" [] n = 8 -> "8" [] n = 9 -> "9"

\* f"{n:02d}" for n below 100
TwoDigits(n) == DigitStr(n \div 10) \o DigitStr(n % 10)

\* str(year) for a four-digit year
FourDigits(n) == TwoDigits(n \div 100) \o TwoDigits(n % 100)

\* date.date().isoformat() of the datetime [day, sec]
DateIso(date) ==
    FourDigits(Ymd(date.day)[1]) \o "-" \o TwoDigits(Ymd(date.day)[2]) \o "-"
        \o TwoDigits(Ymd(date.day)[3])

\* urlparse(uri).query: what follows the first "?", up to a "#"
RECURSIVE UpTo(_, _)
UpTo(s, stop) ==
    IF s = <<>> \/ Head(s) = stop THEN <<>> ELSE <<Head(s)>> \o UpTo(Tail(s), stop)

RECURSIVE After(_, _)
After(s, start) ==
    IF s = <<>> THEN <<>> ELSE IF Head(s) = start THEN Tail(s) ELSE After(Tail(s), start)

UrlQuery(uri) == After(UpTo(uri, "#"), "?")

\* parse_qs(query)["v"][0]: the value of the first v=... pair with a
\* non-blank value (blank values are dropped), or None when "v" is no key
QueryV(query) ==
    LET pairs == Split(query, "&")
        hits == { i \in 1..Len(pairs) :
                    /\ UpTo(pairs[i], "=") = <<"v">>
                    /\ After(pairs[i], "=") # <<>> }
    IN  IF hits = {} THEN None
        ELSE Some(After(pairs[CHOOSE i \in hits : \A j \in hits : i <= j], "="))

\* for content in tab.get("content", []): the first source uri of the tab
RECURSIVE scan_content(_)
scan_content(contents) ==
    IF contents = <<>> THEN None
    ELSE LET content == Head(contents)
         IN  IF content.source # None /\ content.source[1].uri # None
             THEN content.source[1].uri
             ELSE scan_content(Tail(contents))

\* for tab in view.get("tabs", []): stop at the first tab that gave a
\* non-empty uri (an empty uri is overwritten by a later tab's)
RECURSIVE scan_tabs(_, _)
scan_tabs(tabs, first_uri) ==
    IF tabs = <<>> THEN first_uri
    ELSE LET found == scan_content(Get(Head(tabs).content, <<>>))
             uri == IF found # None THEN found ELSE first_uri
         IN  IF uri # None /\ uri[1] # <<>> THEN uri ELSE scan_tabs(Tail(tabs), uri)

\* v = "10", or the v of the first uri's query
ApiVersion(next_data) ==
    LET props == Get(next_data.props, [pageProps |-> None])
        pageProps == Get(props.pageProps, [view |-> None])
        view == Get(pageProps.view, [tabs |-> None])
        first_uri == scan_tabs(Get(view.tabs, <<>>), None)
    IN  IF first_uri # None /\ first_uri[1] # <<>>
        THEN Get(QueryV(UrlQuery(first_uri[1])), <<"10">>)
        ELSE <<"10">>

Channel == "yle-radio-1"

\* Mutant: the client parameter carries the date as well.
UrlParamsDatedClient(next_data, date_str) ==
    LET runtime_config == Get(next_data.runtimeConfig,
                              [appIdFrontend |-> None, appKeyFrontend |-> None])
    IN  <<  <<"language", Get(next_data.locale, <<"fi">>)>>,
            <<"v", ApiVersion(next_data)>>,
            <<"client", <<"yle-areena-web", ".", date_str>> >>,
            <<"app_id", Get(runtime_config.appIdFrontend, <<"areena-web-items">>)>>,
            <<"app_key", Get(runtime_config.appKeyFrontend,
                             <<"wlTs5D9OjIdeS9krPzRQR4I1PYVzoazN">>)>>,
            <<"yleReferer", <<"radio.guide.", date_str, ".radio_opas.", Channel,
                              ".untitled_list">> >> >>

\* params: the list of (key, value) in insertion order
UrlParams(next_data, date_str) ==
    LET runtime_config == Get(next_data.runtimeConfig,
                              [appIdFrontend |-> None, appKeyFrontend |-> None])
    IN  <<  <<"language", Get(next_data.locale, <<"fi">>)>>,
            <<"v", ApiVersion(next_data)>>,
            <<"client", <<"yle-areena-web">> >>,
            <<"app_id", Get(runtime_config.appIdFrontend, <<"areena-web-items">>)>>,
            <<"app_key", Get(runtime_config.appKeyFrontend,
                             <<"wlTs5D9OjIdeS9krPzRQR4I1PYVzoazN">>)>>,
            <<"yleReferer", <<"radio.guide.", date_str, ".radio_opas.", Channel,
                              ".untitled_list">> >> >>

\* quote_plus on one token
QuoteTok(tok) ==
    CASE tok = " " -> "+"
      [] tok = "&" -> "%26"
      [] tok = "=" -> "%3D"
      [] tok = "?" -> "%3F"
      [] tok = "#" -> "%23"
      [] OTHER -> tok

QuotePlus(s) == [i \in 1..Len(s) |-> QuoteTok(s[i])]

\* urlencode(params)
urlencode(params) ==
    [i \in 1..Len(params) |-> <<params[i][1], QuotePlus(params[i][2])>>]

\* build_api_url(next_data, date): the URL as its path segments and its
\* query, f"{base_url}?{urlencode(params)}"
build_api_url(next_data, date) ==
    LET date_str == DateIso(date)
    IN  [base |-> <<"https://areena.api.yle.fi", "v1", "ui", "schedules", Channel,
                    date_str \o ".json">>,
         query |-> urlencode(UrlParams(next_data, date_str))]

\* ----------------------------------------------------------- get_next_data

\* hashlib.sha256(text.encode()).hexdigest(): one digest per text
sha256(text) == "sha256(" \o text \o ")"

\* get_next_data() on what the guide page answers: kind is transport
\* (requests.get raises), badstatus (raise_for_status raises), notag (no
\* __NEXT_DATA__ script: ValueError), badjson (json.loads raises) or ok, with
\* the script's text and the blob it parses to.
get_next_data(page) ==
    IF page.kind # "ok"
    THEN [raised |-> TRUE, next_data |-> None, build_id |-> None, data_hash |-> ""]
    ELSE [raised |-> FALSE, next_data |-> Some(page.blob),
          build_id |-> page.blob.buildId, data_hash |-> sha256(page.text)]

\* ---------------------------------------------------------- fetch_schedule

\* Mutant: the check for an empty data list is gone.
IsEmptyDataNever(body) == FALSE

\* if not data.get("data")
IsEmptyData(body) == body.data = None \/ body.data[1] = <<>>

\* Mutant: fetch_schedule lets requests.RequestException through.
ScheduleCaughtOnlyJson(kind) == kind = "badjson"

\* except (requests.RequestException, json.JSONDecodeError)
ScheduleCaught(kind) == kind \in {"transport", "badstatus", "badjson"}

\* fetch_schedule(url), the API answering resp: kind is transport, badstatus,
\* badjson or json (with the body).  data is None or Some(schedule_data).
fetch_schedule(resp) ==
    IF resp.kind # "json"
    THEN [raised |-> ~ScheduleCaught(resp.kind), data |-> None]
    ELSE IF IsEmptyData(resp.body)
    THEN [raised |-> FALSE, data |-> None]
    ELSE [raised |-> FALSE, data |-> Some(resp.body)]

\* ---------------------------------------------------------------- write_yaml

RECURSIVE Join(_)
Join(s) == IF s = <<>> THEN "" ELSE Head(s) \o Join(Tail(s))

\* Path(directory) / service_id / str(year) / f"{month:02d}" / f"{day:02d}.yaml"
DatedPath(directory, service_id, date) ==
    <<directory, service_id, FourDigits(Ymd(date.day)[1]), TwoDigits(Ymd(date.day)[2]),
      TwoDigits(Ymd(date.day)[3]) \o ".yaml">>

\* service_id = service_name.lower().replace(" ", "-")
WriterServiceId(service_name) == Join(Replace(Lower(service_name), " ", "-"))

\* output_path of write_yaml for the one service of yaml_data
WriterPath(directory, yaml_data, date) ==
    DatedPath(directory, WriterServiceId(yaml_data.service_name), date)

\* output_path of fetch_multiple_days: service_id = "yle-radio-1"
CheckedPath(directory, schedule_data, date) == DatedPath(directory, "yle-radio-1", date)

\* with output_path.open("w") as f: yaml.dump(...)
WriteFile(tree, path, doc) ==
    [p \in DOMAIN tree \cup {path} |-> IF p = path THEN doc ELSE tree[p]]

EmptyTree == [p \in {} |-> None]

\* output_path.exists() and
\* existing_data.get("metadata", {}).get("data_hash") == data_hash
HashMatches(tree, path, data_hash) ==
    path \in DOMAIN tree /\ tree[path].data_hash = Some(data_hash)

\* current_date += timedelta(days=1)
NextDate(date) == [date EXCEPT !.day = @ + 1]

\* ------------------------------------------------------------------------
\* Specification SpecCache: direct calls of get_series_title on a cache that
\* starts empty (a fresh cache directory), as in test_get_series_title.

SeriesIds == {"1-1234567", "1-7654321"}
BuildIds == {None, Some(""), Some("abc123"), Some("def456")}

InitCache ==
    /\ cache = EmptyCache
    /\ call = <<>>
    /\ schedule = <<>> /\ files = <<>> /\ outfile = None /\ stdout = <<>>
    /\ pc = "idle" /\ run = 0 /\ areena = None /\ mode = "stdout" /\ cur = 0
    /\ exit = None /\ trace = None /\ prev = None

\* One call cache.get_series_title(series_id, build_id).
Lookup(series_id, build_id, resp) ==
    /\ Len(call) < MaxLookups
    /\ LET r == get_series_title(cache, series_id, build_id, resp)
       IN  /\ cache' = r.cache
           /\ call' = Append(call, [series_id |-> series_id, build_id |-> build_id,
                                    resp |-> resp, before |-> cache, ret |-> r.ret,
                                    calls |-> r.calls, reads |-> r.reads,
                                    raised |-> r.raised])
    /\ UNCHANGED driverVars

NextCache ==
    \E series_id \in SeriesIds, build_id \in BuildIds, resp \in SeriesResps :
        Lookup(series_id, build_id, resp)

SpecCache == InitCache /\ [][NextCache]_vars

\* C3 (as stated): with a build id, the first lookup on an empty cache
\* performs exactly one network call, and a second lookup with the same key,
\* the endpoint answering the same JSON document, performs none and returns
\* what the first returned, also when that was None for want of a title.
C3_SecondLookupHitsCache ==
    (/\ Len(call) >= 2
     /\ TruthyStr(call[1].build_id)
     /\ call[1].resp.kind = "json"
     /\ call[2].series_id = call[1].series_id
     /\ call[2].build_id = call[1].build_id
     /\ call[2].resp = call[1].resp)
    => (/\ call[1].calls = 1
        /\ call[2].calls = 0
        /\ call[2].ret = call[1].ret)

\* C4: without a build id, get_series_title returns None, sends no GET,
\* does not read the cache and leaves the cache as it was.
C4_NoBuildIdNoIO ==
    \A i \in 1..Len(call) :
        call[i].build_id = None
        => (/\ call[i].ret = None
            /\ call[i].calls = 0
            /\ call[i].reads = 0
            /\ ~call[i].raised
            /\ (IF i < Len(call) THEN call[i + 1].before ELSE cache) = call[i].before)

\* A lookup without a build id for a series whose title is in the cache
\* under another build id.
C4_Witness ==
    \E i \in 1..Len(call) :
        /\ call[i].build_id = None
        /\ \E k \in DOMAIN call[i].before : k[2] = call[i].series_id

\* ------------------------------------------------------------------------
\* Specification SpecConvert: one call of convert_to_yaml on a schedule
\* response drawn from the samples below.

SeqsUpTo(S, n) == UNION { [1..k -> S] : k \in 0..n }

StartRaws ==
    { Some(<<"2024-01-01", "T", "06:00:00", "+02:00">>),
      Some(<<"2024-01-01", "T", "23:45:00", "+02:00">>),
      Some(<<"2024-01-02">>),
      Some(<<"06:00">>),
      None }

DurationRaws ==
    { Some(<<"P", "T", "1", "8", "0", "0", "S">>),
      Some(<<"P", "T", "0", "S">>),
      Some(<<"P", "T", "-", "6", "0", "S">>),
      Some(<<"P", "T", "S">>),
      Some(<<"P", "T", "1", ".", "5", "S">>),
      Some(<<"P", "T", "3", "0", "M">>),
      None }

Pointers ==
    { Some([uri |-> Some(<<ItemsPrefix, "1", "-", "1234567">>)]),
      Some([uri |-> Some(<<ItemsPrefix, "a", "b", "c">>)]),
      None }

LabelSamples ==
    { [type |-> Some("broadcastStartDate"), raw |-> r, pointer |-> None] : r \in StartRaws }
    \cup { [type |-> Some("duration"), raw |-> r, pointer |-> None] : r \in DurationRaws }
    \cup { [type |-> Some("seriesLink"), raw |-> None, pointer |-> p] : p \in Pointers }
    \cup { [type |-> None, raw |-> None, pointer |-> None] }

ItemSamples ==
    { [title |-> t, description |-> d, labels |-> l] :
        t \in {None, Some(""), Some("Aamu-TV")},
        d \in {None, Some("Kuvaus")},
        l \in {None} \cup { Some(s) : s \in SeqsUpTo(LabelSamples, MaxLabels) } }

StartLabel(raw) == [type |-> Some("broadcastStartDate"), raw |-> Some(raw), pointer |-> None]
DurationLabel(raw) == [type |-> Some("duration"), raw |-> Some(raw), pointer |-> None]
SeriesLabel(a, b) ==
    [type |-> Some("seriesLink"), raw |-> None,
     pointer |-> Some([uri |-> Some(<<ItemsPrefix, a, "-", b>>)])]

\* The item of the end-to-end scenario, with a series link.
ItemAamu ==
    [title |-> Some("Aamu-TV"), description |-> None,
     labels |-> Some(<<StartLabel(<<"2024-01-01", "T", "06:00:00", "+02:00">>),
                       DurationLabel(<<"P", "T", "1", "8", "0", "0", "S">>),
                       SeriesLabel("1", "1234567")>>)]

ItemUutiset ==
    [title |-> Some("Uutiset"), description |-> Some("Kuvaus"),
     labels |-> Some(<<StartLabel(<<"2024-01-01", "T", "23:45:00", "+02:00">>)>>)]

ItemNoTitle ==
    [title |-> None, description |-> None,
     labels |-> Some(<<StartLabel(<<"2024-01-01", "T", "06:00:00", "+02:00">>)>>)]

ItemEmptyTitle ==
    [title |-> Some(""), description |-> None,
     labels |-> Some(<<StartLabel(<<"2024-01-02">>)>>)]

ItemNoStart ==
    [title |-> Some("Ilta"), description |-> None,
     labels |-> Some(<<StartLabel(<<"06:00">>), SeriesLabel("1", "7654321")>>)]

ItemSecondStart ==
    [title |-> Some("Yo"), description |-> None,
     labels |-> Some(<<StartLabel(<<"06:00">>), StartLabel(<<"2024-01-02">>)>>)]

\* Two duration labels: the first one not of the form PT...S, or with no
\* integer between PT and S.
ItemMinutesThenSeconds ==
    [title |-> Some("Paiva"), description |-> None,
     labels |-> Some(<<StartLabel(<<"2024-01-01", "T", "06:00:00", "+02:00">>),
                       DurationLabel(<<"P", "T", "3", "0", "M">>),
                       DurationLabel(<<"P", "T", "1", "8", "0", "0", "S">>)>>)]

ItemBlankThenSeconds ==
    [title |-> Some("Ilta"), description |-> None,
     labels |-> Some(<<StartLabel(<<"2024-01-01", "T", "06:00:00", "+02:00">>),
                       DurationLabel(<<"P", "T", "S">>),
                       DurationLabel(<<"P", "T", "1", "8", "0", "0", "S">>)>>)]

ListItems == {ItemAamu, ItemUutiset, ItemNoTitle, ItemEmptyTitle, ItemNoStart,
              ItemSecondStart, ItemMinutesThenSeconds, ItemBlankThenSeconds}

RefererRadio1 ==
    <<"radio", ".", "guide", ".", "2024-01-01", ".", "radio", "_", "opas", ".",
      "yle", "_", "radio", "_", "1", ".", "untitled", "_", "list">>

RefererPuhe ==
    <<"radio", ".", "guide", ".", "2024-01-01", ".", "radio", "_", "opas", ".",
      "yle", "_", "puhe", ".", "untitled", "_", "list">>

RefererSamples == {Some(RefererRadio1), Some(RefererPuhe), Some(<<"yle", "_", "puhe">>), None}

ScheduleSamples ==
    { [yle_referer |-> Some(RefererRadio1), data |-> Some(<<i>>)] : i \in ItemSamples }
    \cup { [yle_referer |-> r, data |-> d] :
             r \in RefererSamples,
             d \in {None} \cup { Some(l) : l \in SeqsUpTo(ListItems, MaxItems) } }

RemoteSamples ==
    { [s \in SeriesIds |-> [kind |-> "transport", body |-> NoBody]],
      [s \in SeriesIds |->
          [kind |-> "json",
           body |-> [pageProps |-> Some([view |-> Some([title |-> Some("Test Series")])])]]] }

InitConvert ==
    /\ cache = EmptyCache
    /\ \E sd \in ScheduleSamples, b \in {None, Some("abc123")}, rm \in RemoteSamples :
          call = [schedule_data |-> sd, build_id |-> b, remote |-> rm, out |-> None]
    /\ schedule = <<>> /\ files = <<>> /\ outfile = None /\ stdout = <<>>
    /\ pc = "idle" /\ run = 0 /\ areena = None /\ mode = "stdout" /\ cur = 0
    /\ exit = None /\ trace = None /\ prev = None

\* yaml_data = convert_to_yaml(schedule_data, build_id, data_hash, cache)
Convert ==
    /\ call.out = None
    /\ \E r \in {convert_to_yaml(call.schedule_data, call.build_id, Some("h1"), cache,
                                  call.remote)} :
          /\ call' = [call EXCEPT !.out = Some([raised |-> r.raised, yaml |-> r.yaml,
                                                lookups |-> r.lookups])]
          /\ cache' = r.cache
    /\ UNCHANGED driverVars

NextConvert == Convert

SpecConvert == InitConvert /\ [][NextConvert]_vars

\* What the claims call a parseable start date, a duration of n seconds and
\* a kept item, stated on the samples without the code's parsing.
ParseableStartRaws ==
    { Some(<<"2024-01-01", "T", "06:00:00", "+02:00">>),
      Some(<<"2024-01-01", "T", "23:45:00", "+02:00">>),
      Some(<<"2024-01-02">>) }

PTSeconds(raw) ==
    CASE raw = Some(<<"P", "T", "1", "8", "0", "0", "S">>) -> Some(1800)
      [] raw = Some(<<"P", "T", "0", "S">>) -> Some(0)
      [] raw = Some(<<"P", "T", "-", "6", "0", "S">>) -> Some(0 - 60)
      [] OTHER -> None

LabelsOf(item) == IF item.labels = None THEN <<>> ELSE item.labels[1]

IsKept(item) ==
    /\ item.title # None /\ item.title # Some("")
    /\ \E i \in 1..Len(LabelsOf(item)) :
          /\ LabelsOf(item)[i].type = Some("broadcastStartDate")
          /\ LabelsOf(item)[i].raw \in ParseableStartRaws

KeptItems == SelectSeq(IF call.schedule_data.data = None THEN <<>>
                       ELSE call.schedule_data.data[1], IsKept)

Programmes == call.out[1].yaml[1].programmes

Returned == call.out # None /\ ~call.out[1].raised

\* The raws that begin with PT and end with S.
PTShapedRaws ==
    { Some(<<"P", "T", "1", "8", "0", "0", "S">>),
      Some(<<"P", "T", "0", "S">>),
      Some(<<"P", "T", "-", "6", "0", "S">>),
      Some(<<"P", "T", "S">>),
      Some(<<"P", "T", "1", ".", "5", "S">>) }

\* The duration the item states: that of its first duration label of the
\* form PT...S, None when there is none or it is not PT<integer>S.
StatedSeconds(item) ==
    LET ds == { i \in 1..Len(LabelsOf(item)) :
                  /\ LabelsOf(item)[i].type = Some("duration")
                  /\ LabelsOf(item)[i].raw \in PTShapedRaws }
    IN  IF ds = {} THEN None
        ELSE PTSeconds(LabelsOf(item)[CHOOSE i \in ds : \A j \in ds : i <= j].raw)

InstantOf(t) == t.date * SecondsPerDay + t.hour * 3600 + t.minute * 60 + t.second

\* C6: when the referer names a service, convert_to_yaml returns and its
\* programmes are exactly the items that have a non-empty title and at least
\* one parseable broadcastStartDate label, in their input order.
C6_ProgrammesAreKeptItems ==
    call.out # None
    => /\ (call.schedule_data.yle_referer \in {Some(RefererRadio1), Some(RefererPuhe)}
            => ~call.out[1].raised)
       /\ (~call.out[1].raised
            => /\ Len(Programmes) = Len(KeptItems)
               /\ \A k \in 1..Len(Programmes) :
                     Programmes[k].title = KeptItems[k].title[1])

\* A conversion of two items that dropped the first and kept the second.
C6_Witness ==
    /\ Returned
    /\ call.schedule_data.data # None
    /\ Len(call.schedule_data.data[1]) = 2
    /\ ~IsKept(call.schedule_data.data[1][1])
    /\ IsKept(call.schedule_data.data[1][2])
    /\ Len(Programmes) = 1

\* C7 (as amended): an emitted programme has an end_time exactly when the
\* item's first duration label of the form PT...S is PT<integer>S with an
\* integer greater than zero, and then end_time is start_time plus that
\* many seconds.
C7_EndTimeIffPositiveDuration ==
    Returned
    => \A k \in 1..Len(Programmes) :
          k <= Len(KeptItems)
          => LET n == StatedSeconds(KeptItems[k])
                 p == Programmes[k]
             IN  /\ (p.end_time # None) <=> (n # None /\ n[1] > 0)
                 /\ p.end_time # None
                      => /\ InstantOf(p.end_time[1]) = InstantOf(p.start_time) + n[1]
                         /\ p.end_time[1].offset = p.start_time.offset

\* An emitted programme whose end_time falls on the day after its start.
C7_Witness ==
    /\ Returned
    /\ \E k \in 1..Len(Programmes) :
          /\ Programmes[k].end_time # None
          /\ Programmes[k].end_time[1].date = Programmes[k].start_time.date + 1

\* C7 (as stated): end_time is present exactly when the item's duration
\* label (the first of the form PT...S) is PT<integer>S with a non-zero
\* integer.
C7_EndTimeIffNonZeroDuration ==
    Returned
    => \A k \in 1..Len(Programmes) :
          k <= Len(KeptItems)
          => LET n == StatedSeconds(KeptItems[k])
             IN  (Programmes[k].end_time # None) <=> (n # None /\ n[1] # 0)

\* ------------------------------------------------------------------------
\* Specification SpecLabels: _extract_time_info and _extract_series_info on
\* an item, and then on the same item with one label more or with two
\* neighbouring labels exchanged.

\* The labels an item is made of here: of each type, ones the code can use
\* and ones it cannot, and a label without a type.
LabelChoices ==
    { StartLabel(<<"2024-01-01", "T", "06:00:00", "+02:00">>),
      StartLabel(<<"2024-01-02">>),
      StartLabel(<<"06:00">>),
      DurationLabel(<<"P", "T", "1", "8", "0", "0", "S">>),
      DurationLabel(<<"P", "T", "0", "S">>),
      DurationLabel(<<"P", "T", "S">>),
      DurationLabel(<<"P", "T", "3", "0", "M">>),
      SeriesLabel("1", "1234567"),
      SeriesLabel("1", "7654321"),
      [type |-> Some("seriesLink"), raw |-> None,
       pointer |-> Some([uri |-> Some(<<ItemsPrefix, "a", "b", "c">>)])],
      [type |-> None, raw |-> None, pointer |-> None] }

\* labels with x put in at position p
InsertAt(labels, p, x) ==
    SubSeq(labels, 1, p - 1) \o <<x>> \o SubSeq(labels, p, Len(labels))

\* labels with those at positions i and i + 1 exchanged
Swap(labels, i) ==
    [k \in 1..Len(labels) |->
        IF k = i THEN labels[i + 1] ELSE IF k = i + 1 THEN labels[i] ELSE labels[k]]

\* The second item's labels: at is where the label was put in, or the first
\* of the two positions exchanged.
Variants(labels) ==
    { [how |-> "insert", at |-> p, labels |-> InsertAt(labels, p, x)] :
        p \in 1..(Len(labels) + 1), x \in LabelChoices }
    \cup { [how |-> "swap", at |-> i, labels |-> Swap(labels, i)] :
             i \in 1..(Len(labels) - 1) }

LabelledItem(labels) ==
    [title |-> Some("Aamu-TV"), description |-> None, labels |-> Some(labels)]

\* The series endpoint has a title for every series.
TitledRemote ==
    [s \in SeriesIds |->
        [kind |-> "json",
         body |-> [pageProps |-> Some([view |-> Some([title |-> Some("Test Series")])])]]]

InitLabels ==
    /\ cache = EmptyCache
    /\ \E labels \in SeqsUpTo(LabelChoices, MaxLabels) :
          \E v \in Variants(labels) :
             call = [labels |-> labels, variant |-> v, out |-> <<>>]
    /\ schedule = <<>> /\ files = <<>> /\ outfile = None /\ stdout = <<>>
    /\ pc = "idle" /\ run = 0 /\ areena = None /\ mode = "stdout" /\ cur = 0
    /\ exit = None /\ trace = None /\ prev = None

\* What the programme record takes from the labels: start_time, end_time =
\* _extract_time_info(item); series_title = _extract_series_info(item, ...)
Extracted(times, s) ==
    [start_time |-> times.start_time, end_time |-> times.end_time,
     series_id |-> s.looked, series |-> s.ret]

\* The two extractions on one item: the first item, then the second.
Extract ==
    /\ Len(call.out) < 2
    /\ \E item \in {LabelledItem(IF call.out = <<>> THEN call.labels
                                 ELSE call.variant.labels)} :
          \E s \in {_extract_series_info(item, Some("abc123"), cache, TitledRemote)} :
             /\ call' = [call EXCEPT !.out = Append(@, Extracted(_extract_time_info(item),
                                                                 s))]
             /\ cache' = s.cache
    /\ UNCHANGED driverVars

NextLabels == Extract

SpecLabels == InitLabels /\ [][NextLabels]_vars

\* The labels the code can use, stated on LabelChoices without the code's
\* parsing: a start date that is an ISO-8601 timestamp, a duration of the
\* form PT...S, a series link to yleareena://items/<digits>-<digits>.
UsableLabels ==
    { StartLabel(<<"2024-01-01", "T", "06:00:00", "+02:00">>),
      StartLabel(<<"2024-01-02">>),
      DurationLabel(<<"P", "T", "1", "8", "0", "0", "S">>),
      DurationLabel(<<"P", "T", "0", "S">>),
      DurationLabel(<<"P", "T", "S">>),
      SeriesLabel("1", "1234567"),
      SeriesLabel("1", "7654321") }

ScannedTypes == {Some("broadcastStartDate"), Some("duration"), Some("seriesLink")}

BothExtracted == Len(call.out) = 2

\* The label that the second item has and the first has not.
Inserted == call.variant.labels[call.variant.at]

\* Two neighbouring labels of different types were exchanged.
SwappedDifferentTypes ==
    /\ call.variant.how = "swap"
    /\ call.labels[call.variant.at].type # call.labels[call.variant.at + 1].type

\* C11 (as amended): for each of the types broadcastStartDate, duration and
\* seriesLink the value is that of the first label of the type the code can
\* use (a start date that parses, a duration of the form PT...S, a series
\* link whose uri matches): a label of the type put in anywhere after such
\* a label changes neither start time, end time nor series, and exchanging
\* labels of different types changes nothing either.
C11_FirstUsableLabelDecides ==
    BothExtracted
    => /\ ( /\ call.variant.how = "insert"
            /\ Inserted.type \in ScannedTypes
            /\ \E i \in 1..(call.variant.at - 1) :
                  /\ call.labels[i].type = Inserted.type
                  /\ call.labels[i] \in UsableLabels )
          => call.out[2] = call.out[1]
       /\ SwappedDifferentTypes => call.out[2] = call.out[1]

\* A second usable duration label, PT0S, put in after PT1800S: the end time
\* is still half an hour after the start.
C11_Witness ==
    /\ BothExtracted
    /\ call.variant.how = "insert"
    /\ Inserted = DurationLabel(<<"P", "T", "0", "S">>)
    /\ \E i \in 1..(call.variant.at - 1) :
          call.labels[i] = DurationLabel(<<"P", "T", "1", "8", "0", "0", "S">>)
    /\ call.out[1].end_time # None
    /\ call.out[2].end_time = call.out[1].end_time
    /\ call.out[2].end_time[1].sec = call.out[2].start_time[1].sec + 1800

\* C11 (as stated): the value is that of the first label of the type: a
\* label of a type put in anywhere after a label of that type changes
\* neither start time, end time nor series, and exchanging labels of
\* different types changes nothing.
C11_FirstLabelOfTypeDecides ==
    BothExtracted
    => /\ ( /\ call.variant.how = "insert"
            /\ Inserted.type \in ScannedTypes
            /\ \E i \in 1..(call.variant.at - 1) : call.labels[i].type = Inserted.type )
          => call.out[2] = call.out[1]
       /\ SwappedDifferentTypes => call.out[2] = call.out[1]

\* ------------------------------------------------------------------------
\* Specification SpecUrl: build_api_url on one configuration blob and two
\* dates.

Uri10 == <<"https://example.com", "?", "v", "=", "10">>
Uri11 == <<"https://example.com", "?", "v", "=", "11">>
UriNoV == <<"https://example.com", "?", "x", "=", "1">>
UriBlankV == <<"https://example.com", "?", "v", "=", "&", "v", "=", "12">>
UriFragment == <<"https://example.com", "#", "?", "v", "=", "13">>

WithUri(uri) == [source |-> Some([uri |-> Some(uri)])]
Tab(contents) == [content |-> Some(contents)]

TabsSamples ==
    { None,
      Some(<<>>),
      Some(<<[content |-> None]>>),
      Some(<<Tab(<<WithUri(Uri10)>>)>>),
      Some(<<Tab(<<WithUri(Uri11)>>)>>),
      Some(<<Tab(<<[source |-> None], [source |-> Some([uri |-> None])]>>),
             Tab(<<WithUri(Uri11)>>)>>),
      Some(<<Tab(<<WithUri(<<>>)>>), Tab(<<WithUri(Uri11)>>)>>),
      Some(<<Tab(<<WithUri(<<>>), WithUri(Uri11)>>)>>),
      Some(<<Tab(<<WithUri(UriNoV)>>), Tab(<<WithUri(Uri11)>>)>>),
      Some(<<Tab(<<WithUri(UriBlankV)>>)>>),
      Some(<<Tab(<<WithUri(UriFragment)>>)>>) }

PropsSamples ==
    {None, Some([pageProps |-> None]), Some([pageProps |-> Some([view |-> None])])}
    \cup { Some([pageProps |-> Some([view |-> Some([tabs |-> t])])]) : t \in TabsSamples }

RuntimeConfigSamples ==
    { None,
      Some([appIdFrontend |-> Some(<<"test-app-id">>),
            appKeyFrontend |-> Some(<<"test-app-key">>)]),
      Some([appIdFrontend |-> None, appKeyFrontend |-> Some(<<"key", "&", "more">>)]) }

NextDataSamples ==
    { [locale |-> l, runtimeConfig |-> rc, props |-> p, buildId |-> Some("abc123")] :
        l \in {None, Some(<<"fi">>), Some(<<"sv">>)},
        rc \in RuntimeConfigSamples,
        p \in PropsSamples }

UrlDates == { [day |-> d, sec |-> s] : d \in 0..3, s \in {0, 12 * 3600} }

InitUrl ==
    /\ \E nd \in NextDataSamples, d1 \in UrlDates, d2 \in UrlDates :
          call = [next_data |-> nd, date1 |-> d1, date2 |-> d2, out |-> None]
    /\ cache = EmptyCache
    /\ schedule = <<>> /\ files = <<>> /\ outfile = None /\ stdout = <<>>
    /\ pc = "idle" /\ run = 0 /\ areena = None /\ mode = "stdout" /\ cur = 0
    /\ exit = None /\ trace = None /\ prev = None

\* url = build_api_url(next_data, date), for both dates
BuildUrls ==
    /\ call.out = None
    /\ call' = [call EXCEPT !.out = Some([url1 |-> build_api_url(call.next_data, call.date1),
                                          url2 |-> build_api_url(call.next_data, call.date2)])]
    /\ UNCHANGED <<cache, driverVars>>

NextUrl == BuildUrls

SpecUrl == InitUrl /\ [][NextUrl]_vars

QueryKeys(url) == [i \in 1..Len(url.query) |-> url.query[i][1]]

\* C9: the URLs built from one blob for two dates agree in every path
\* segment but the last (the date-bearing one) and in every query parameter
\* but yleReferer: language, v, client, app_id and app_key are the same; and
\* for the same calendar date the two URLs are identical.
C9_OnlyDatePartsDiffer ==
    call.out # None
    => LET u1 == call.out[1].url1
           u2 == call.out[1].url2
       IN  /\ Len(u1.base) = Len(u2.base)
           /\ \A i \in 1..(Len(u1.base) - 1) : u1.base[i] = u2.base[i]
           /\ QueryKeys(u1) = <<"language", "v", "client", "app_id", "app_key", "yleReferer">>
           /\ QueryKeys(u2) = QueryKeys(u1)
           /\ \A j \in 1..Len(u1.query) :
                 u1.query[j][1] # "yleReferer" => u1.query[j][2] = u2.query[j][2]
           /\ (call.date1.day = call.date2.day => u1 = u2)

\* Two URLs for different dates, which differ in the date-bearing segment
\* and in yleReferer.
C9_Witness ==
    /\ call.out # None
    /\ call.date1.day # call.date2.day
    /\ call.out[1].url1.base[6] # call.out[1].url2.base[6]
    /\ call.out[1].url1.query[6] # call.out[1].url2.query[6]

\* ------------------------------------------------------------------------
\* Specification Spec: invocations of main() against a remote guide whose
\* answers per date are fixed, an output tree and a cache that persist from
\* one invocation to the next.

\* The guide page: what requests.get and the parsing of its script give.
FixtureBlob ==
    [locale |-> Some(<<"fi">>),
     runtimeConfig |-> Some([appIdFrontend |-> Some(<<"test-app-id">>),
                             appKeyFrontend |-> Some(<<"test-app-key">>)]),
     props |-> Some([pageProps |-> Some([view |-> Some([tabs |->
                  Some(<<Tab(<<WithUri(Uri10)>>)>>)])])]),
     buildId |-> Some("abc123")]

BareBlob == [locale |-> None, runtimeConfig |-> None, props |-> None, buildId |-> None]

PageOutcomes ==
    { [kind |-> k, text |-> "", blob |-> BareBlob] :
        k \in {"transport", "badstatus", "notag", "badjson"} }
    \cup { [kind |-> "ok", text |-> "pageA", blob |-> FixtureBlob],
           [kind |-> "ok", text |-> "pageB", blob |-> BareBlob] }

\* The command line: -o and -d
Configs ==
    { [output |-> None, directory |-> None],
      [output |-> Some("out.yaml"), directory |-> None],
      [output |-> None, directory |-> Some("guide")] }

NoScheduleBody == [yle_referer |-> None, data |-> None]

DayData(referer, items) ==
    [kind |-> "json", body |-> [yle_referer |-> referer, data |-> Some(items)]]

\* What the schedule API can answer for one date.
DayResps ==
    { [kind |-> k, body |-> NoScheduleBody] : k \in {"transport"} }
    \cup { DayData(Some(RefererRadio1), <<>>),
           DayData(Some(RefererRadio1), <<ItemAamu, ItemUutiset>>),
           DayData(Some(RefererPuhe), <<ItemUutiset>>),
           DayData(None, <<ItemUutiset>>) }

\* The schedule API: the answer for the date in the URL; beyond the guide's
\* last date, a document without data.
ServerResponse(url) ==
    LET ds == { d \in DOMAIN schedule :
                  DateIso([day |-> d, sec |-> 0]) \o ".json" = url.base[Len(url.base)] }
    IN  IF ds = {} THEN [kind |-> "json", body |-> NoScheduleBody]
        ELSE schedule[CHOOSE d \in ds : TRUE]

\* What the series endpoint answers during one conversion.
Remotes ==
    { [s \in SeriesIds |-> r] :
        r \in { [kind |-> "transport", body |-> NoBody],
                [kind |-> "badstatus", body |-> NoBody],
                [kind |-> "badjson", body |-> NoBody],
                [kind |-> "json", body |-> [pageProps |-> Some([view |-> None])]],
                [kind |-> "json",
                 body |-> [pageProps |-> Some([view |-> Some([title |->
                              Some("Test Series")])])]] } }

NoTrace ==
    [page |-> "", fetched |-> {}, written |-> {}, skipped |-> {}, start_files |-> EmptyTree,
     last |-> None]

Init ==
    /\ schedule \in [0..(MaxDays - 1) -> DayResps]
    /\ cache = EmptyCache
    /\ files = EmptyTree
    /\ outfile = None
    /\ stdout = <<>>
    /\ pc = "idle"
    /\ run = 0
    /\ areena = None
    /\ mode = [output |-> None, directory |-> None]
    /\ cur = [day |-> 0, sec |-> 0]
    /\ exit = None
    /\ trace = NoTrace
    /\ prev = None
    /\ call = <<>>

Summary == [normal |-> pc = "done", mode |-> mode, areena |-> areena]

\* main(): parse the arguments, open the cache, get_next_data() succeeds;
\* fetch_multiple_days starts at today's date.
MainStarts(config, page) ==
    /\ pc \in {"idle", "done", "exited"}
    /\ run < MaxRuns
    /\ \E r \in {get_next_data(page)} :
          /\ ~r.raised
          /\ areena' = Some([next_data |-> r.next_data[1], build_id |-> r.build_id,
                             data_hash |-> r.data_hash])
    /\ run' = run + 1
    /\ prev' = IF run = 0 THEN None ELSE Some(Summary)
    /\ mode' = config
    /\ cur' = [day |-> 0, sec |-> 0]
    /\ pc' = "loop"
    /\ exit' = None
    /\ stdout' = <<>>
    /\ trace' = [NoTrace EXCEPT !.page = page.kind, !.start_files = files]
    /\ UNCHANGED <<schedule, cache, files, outfile, call>>

\* main(): get_next_data() raises before a FetchConfig is made;
\* except Exception: sys.exit(1)
MainFails(page) ==
    /\ pc \in {"idle", "done", "exited"}
    /\ run < MaxRuns
    /\ get_next_data(page).raised
    /\ run' = run + 1
    /\ prev' = IF run = 0 THEN None ELSE Some(Summary)
    /\ areena' = None
    /\ pc' = "exited"
    /\ exit' = Some(1)
    /\ stdout' = <<>>
    /\ trace' = [NoTrace EXCEPT !.page = page.kind, !.start_files = files]
    /\ UNCHANGED <<schedule, cache, files, outfile, mode, cur, call>>

\* The fetch at the top of the loop body
ApiUrl == build_api_url(areena[1].next_data, cur)
Fetched == fetch_schedule(ServerResponse(ApiUrl))

\* Mutant: the hash check is made whatever the mode, under the directory
\* "guide" when none was given.
SkipCheckAnyMode(f) ==
    HashMatches(files, CheckedPath(Get(mode.directory, "guide"), f.data[1], cur),
                areena[1].data_hash)

\* The hash check of the loop body, f being what fetch_schedule returned:
\* directory mode, the file exists and its data_hash is this run's
SkipCheck(f) ==
    /\ mode.directory # None
    /\ HashMatches(files, CheckedPath(mode.directory[1], f.data[1], cur),
                   areena[1].data_hash)

Last(outcome, lookups, doc) ==
    Some([day |-> cur.day, outcome |-> outcome, lookups |-> lookups, doc |-> doc,
          files_before |-> files])

\* if not schedule_data: break; main() returns and the process exits 0
LoopStops ==
    /\ pc = "loop"
    /\ \E f \in {Fetched} : ~f.raised /\ f.data = None
    /\ pc' = "done"
    /\ exit' = Some(0)
    /\ trace' = [trace EXCEPT !.fetched = @ \cup {cur.day}, !.last = Last("stop", <<>>, None)]
    /\ UNCHANGED <<schedule, cache, files, outfile, stdout, run, areena, mode, cur, prev,
                   call>>

\* "Data hash matches ..., skipping": current_date += 1 day; continue
LoopSkips ==
    /\ pc = "loop"
    /\ \E f \in {Fetched} : ~f.raised /\ f.data # None /\ SkipCheck(f)
    /\ cur' = NextDate(cur)
    /\ trace' = [trace EXCEPT !.fetched = @ \cup {cur.day}, !.skipped = @ \cup {cur.day},
                              !.last = Last("skip", <<>>, None)]
    /\ UNCHANGED <<schedule, cache, files, outfile, stdout, pc, run, areena, mode, exit,
                   prev, call>>

\* yaml_data = convert_to_yaml(schedule_data, build_id, data_hash, cache)
Conversion(f, remote) ==
    convert_to_yaml(f.data[1], areena[1].build_id, Some(areena[1].data_hash), cache, remote)

\* fetch_schedule raised: nothing was converted
NoConversion == [raised |-> TRUE, yaml |-> None, cache |-> cache, lookups |-> <<>>]

\* The loop body gets as far as convert_to_yaml
Converts(f) == ~f.raised /\ f.data # None /\ ~SkipCheck(f)

\* The rest of the loop body.  convert_to_yaml is called (remote is what the
\* series endpoint answers during this conversion).  When it returns:
\* write_yaml, current_date += 1 day.  When an exception leaves it (or has
\* left fetch_schedule), the exception leaves fetch_multiple_days and main()
\* ends in except Exception: sys.exit(1).
LoopConverts ==
    /\ pc = "loop"
    /\ \E f \in {Fetched} :
          /\ IF f.raised THEN TRUE ELSE Converts(f)
          /\ \E remote \in Remotes :
                \E r \in {IF f.raised THEN NoConversion ELSE Conversion(f, remote)} :
                   /\ cache' = r.cache
                   /\ IF r.raised
                      THEN /\ pc' = "exited"
                           /\ exit' = Some(1)
                           /\ trace' = [trace EXCEPT !.fetched = @ \cup {cur.day},
                                                     !.last = Last("raise", r.lookups, None)]
                           /\ UNCHANGED <<files, outfile, stdout, cur>>
                      ELSE /\ IF mode.directory # None
                              THEN /\ files' = WriteFile(files,
                                                         WriterPath(mode.directory[1],
                                                                    r.yaml[1], cur),
                                                         r.yaml[1])
                                   /\ UNCHANGED <<outfile, stdout>>
                              ELSE IF mode.output # None
                              THEN /\ outfile' = r.yaml
                                   /\ UNCHANGED <<files, stdout>>
                              ELSE /\ stdout' = Append(stdout, r.yaml[1])
                                   /\ UNCHANGED <<files, outfile>>
                           /\ trace' = [trace EXCEPT !.fetched = @ \cup {cur.day},
                                                     !.written = @ \cup {cur.day},
                                                     !.last = Last("emit", r.lookups, r.yaml)]
                           /\ cur' = NextDate(cur)
                           /\ UNCHANGED <<pc, exit>>
    /\ UNCHANGED <<schedule, run, areena, mode, prev, call>>

Next ==
    \/ \E config \in Configs, page \in PageOutcomes : MainStarts(config, page)
    \/ \E page \in PageOutcomes : MainFails(page)
    \/ LoopStops
    \/ LoopSkips
    \/ LoopConverts

Spec == Init /\ [][Next]_vars

\* What the claims about the driver speak of, stated on the remote guide
\* and on the run's history.

\* The schedule API has data for day d: a JSON document with a non-empty
\* data list.
HasData(d) ==
    /\ d \in DOMAIN schedule
    /\ schedule[d].kind = "json"
    /\ schedule[d].body.data # None
    /\ Len(schedule[d].body.data[1]) > 0

\* The page fetch, or the schedule fetch for day d, failed in transport.
TransportKinds == {"transport", "badstatus"}
ScheduleTransportFailed(d) == d \in DOMAIN schedule /\ schedule[d].kind \in TransportKinds

\* The service directory of a schedule response, read off its referer.
ServiceDirs == {"yle-radio-1", "yle-puhe"}
ServiceDirOf(referer) ==
    CASE referer = Some(RefererRadio1) -> "yle-radio-1"
      [] referer = Some(RefererPuhe) -> "yle-puhe"

\* Some file of the tree is a file for day d.
FileForDay(tree, d) ==
    \E s \in ServiceDirs : DatedPath("guide", s, [day |-> d, sec |-> 0]) \in DOMAIN tree

EarlierDays == 0..(cur.day - 1)

\* The series endpoint's answer a is a failure: no response, a bad status,
\* an unparseable body, or a document without a title.
FailedAnswer(a) ==
    \/ a.kind \in {"transport", "badstatus", "badjson"}
    \/ a.kind = "json"
       /\ a.body # [pageProps |-> Some([view |-> Some([title |-> Some("Test Series")])])]

DayItems(d) == schedule[d].body.data[1]

C2_SecondRunWritesNothing ==
    ( /\ pc \in {"loop", "done"}
      /\ prev # None
      /\ prev[1].normal
      /\ prev[1].mode.directory # None
      /\ mode = prev[1].mode
      /\ areena[1].data_hash = prev[1].areena[1].data_hash )
    => /\ trace.written = {}
       /\ files = trace.start_files

\* C5 (as amended): a transport failure of the page fetch is fatal: the
\* process exits with status 1 and has fetched and written nothing.  A
\* transport failure of a day's schedule fetch is not: fetch_schedule
\* catches it, the driver takes the date for one without data, stops there
\* and the process exits with status 0.
C5_PageFailureFatalScheduleFailureStops ==
    /\ trace.page \in TransportKinds
         => /\ pc = "exited" /\ exit = Some(1)
            /\ trace.fetched = {}
            /\ files = trace.start_files
    /\ \A d \in trace.fetched :
          ScheduleTransportFailed(d)
          => /\ pc = "done" /\ exit = Some(0)
             /\ cur.day = d
             /\ trace.last # None /\ trace.last[1].outcome = "stop"

\* A run that wrote the first date and ended with status 0 on a transport
\* failure of the second date's fetch.
C5_Witness ==
    /\ pc = "done" /\ exit = Some(0)
    /\ cur.day = 1
    /\ ScheduleTransportFailed(1)
    /\ 1 \in trace.fetched
    /\ 0 \in trace.written

\* C5 (as stated): after a transport failure of the page fetch or of a
\* day's schedule fetch the process has exited with a non-zero status.
C5_TransportFailureIsFatal ==
    /\ trace.page \in TransportKinds => pc = "exited" /\ exit = Some(1)
    /\ \A d \in trace.fetched :
          ScheduleTransportFailed(d) => pc = "exited" /\ exit = Some(1)

\* C8: a series lookup that the endpoint failed (no response, bad status,
\* unparseable body, no title) returns None and raises nothing; the day's
\* document is emitted with the programme of that item, without a series,
\* and with every kept item of the day; the driver is at the next date.
C8_FailedLookupDoesNotAbort ==
    trace.last # None
    => \A i \in 1..Len(trace.last[1].lookups) :
          LET last == trace.last[1]
              l == last.lookups[i]
          IN  (l.answer # None /\ FailedAnswer(l.answer[1]))
              => /\ l.ret = None /\ ~l.raised
                 /\ last.outcome = "emit"
                 /\ l.at \in 1..Len(last.doc[1].programmes)
                 /\ last.doc[1].programmes[l.at].series = None
                 /\ Len(last.doc[1].programmes) = Len(SelectSeq(DayItems(last.day), IsKept))
                 /\ pc = "loop" /\ cur.day = last.day + 1

\* A day of two programmes emitted after the lookup for the first one met
\* a transport failure.
C8_Witness ==
    /\ trace.last # None
    /\ trace.last[1].outcome = "emit"
    /\ Len(trace.last[1].lookups) = 1
    /\ trace.last[1].lookups[1].answer = Some([kind |-> "transport", body |-> NoBody])
    /\ trace.last[1].lookups[1].at = 1
    /\ Len(trace.last[1].doc[1].programmes) = 2
    /\ trace.last[1].doc[1].programmes[1].series = None
    /\ pc = "loop"

\* C10 (as stated): in dated-directory mode, for a date with data whose
\* response names a service: when the file the writer produces for that
\* service and date was there with the run's content hash, the driver wrote
\* nothing; otherwise it wrote that file; either way it is at the next date.
C10_CheckedFileIsWrittenFile ==
    ( /\ trace.last # None
      /\ mode.directory # None
      /\ trace.last[1].outcome \in {"skip", "emit"} )
    => LET last == trace.last[1]
           target == DatedPath(mode.directory[1],
                               ServiceDirOf(schedule[last.day].body.yle_referer),
                               [day |-> last.day, sec |-> 0])
           had == /\ target \in DOMAIN last.files_before
                  /\ last.files_before[target].data_hash = Some(areena[1].data_hash)
       IN  /\ had => last.outcome = "skip" /\ files = last.files_before
           /\ ~had => /\ last.outcome = "emit"
                      /\ target \in DOMAIN files
                      /\ files[target] = last.doc[1]
           /\ pc = "loop" /\ cur.day = last.day + 1


\* The document of day d as the guide and the page give it: the run's
\* content hash, the display name of the service the response names, one
\* programme for each kept item of the day.
ServiceNameOf(referer) ==
    CASE referer = Some(RefererRadio1) -> <<"Yle", " ", "Radio", " ", "1">>
      [] referer = Some(RefererPuhe) -> <<"Yle", " ", "Puhe">>

DocIsOfDay(doc, d) ==
    /\ doc.data_hash = Some(areena[1].data_hash)
    /\ doc.service_name = ServiceNameOf(schedule[d].body.yle_referer)
    /\ Len(doc.programmes) = Len(SelectSeq(DayItems(d), IsKept))
    /\ \A k \in 1..Len(doc.programmes) :
          doc.programmes[k].title = SelectSeq(DayItems(d), IsKept)[k].title[1]

SingleFileMode == areena # None /\ mode.output # None /\ mode.directory = None

\* C12: in single-file mode the driver never skips a date on the content
\* hash: every date fetched with data is converted and written, to the one
\* output path and never into the tree, each write replacing the file's
\* content, so that after each write, and when the run has stopped at the
\* first date without data, the file holds the document of the last date
\* that returned data and no other.  (A run that an exception ends leaves
\* the document of the last date it wrote.)
C12_SingleFileHoldsLastDocument ==
    SingleFileMode
    => /\ trace.skipped = {}
       /\ trace.written = EarlierDays
       /\ files = trace.start_files
       /\ cur.day > 0 => /\ outfile # None
                         /\ DocIsOfDay(outfile[1], cur.day - 1)
       /\ pc = "done" => /\ ~HasData(cur.day)
                         /\ \A d \in EarlierDays : HasData(d)

\* A run in single-file mode that wrote two dates with different documents
\* and stopped at the third: the file holds the second date's document.
C12_Witness ==
    /\ SingleFileMode
    /\ pc = "done"
    /\ cur.day = 2
    /\ trace.written = {0, 1}
    /\ outfile # None
    /\ DocIsOfDay(outfile[1], 1)
    /\ ~DocIsOfDay(outfile[1], 0)
====
